---- MODULE Spec2Model ----
(***************************************************************************)
(* Model of src/bot.py: the login conversation (start_command,             *)
(* get_phone_number, get_otp, get_2fa_password, cancel_command,            *)
(* cleanup_client), the session helpers (save_session, delete_session,     *)
(* logout_command) and the retrieval handler handle_message_with_link.     *)
(*                                                                         *)
(* Remote calls (connect, send_code, sign_in, check_password, replies,     *)
(* get_messages, copy_message, ...) are inputs: every handler draws the    *)
(* outcome of each remote call it makes from the outcomes the call can     *)
(* have.  Client.disconnect() on a connected client is taken to succeed,   *)
(* and so are the replies sent outside a try block or from an except       *)
(* branch.  Login handlers of one user run one at a time; a retrieval is   *)
(* split at its awaits.                                                    *)
(***************************************************************************)
EXTENDS Integers, Sequences, FiniteSets, TLC

\* ------------------------------------------------------------------ bounds
\* Number of pyrogram login Client objects created in a run, all users together.
MaxClients == 2
\* Seconds that pass in one step of the idle clock.
TickSeconds == 300
\* Number of retrieval requests issued in a run, all users together.
MaxRequests == 2
\* Largest message id written into a well-formed link.
MaxMsgId == 11

\* --------------------------------------------------------------- constants
Users == {1, 2}
\* len(phone_number) < 8 is rejected (bot.py:142).
MinPhoneLen == 8
\* Idle timeout of the login conversation, in seconds (spec section 4.2).
CONVERSATION_TIMEOUT == 300

\* Phone inputs, as the characters the user typed.
PHONE_A == <<"+", "1", "5", "5", "5", "0", "0", "1">>
PHONE_SHORT == <<"+", "1", "5", "5", "5", "0", "0">>
PHONE_NOPLUS == <<"1", "5", "5", "5", "0", "0", "0", "1">>
PhoneInputs == {PHONE_A, PHONE_SHORT, PHONE_NOPLUS}

\* Link texts a user may send, as characters.
\* https://t.me/c/12/5?single
LINK_PRIVATE ==
    <<"h", "t", "t", "p", "s", ":", "/", "/", "t", ".", "m", "e", "/", "c", "/", "1", "2", "/", "5", "?", "s", "i", "n", "g", "l", "e">>
\* t.me/ab/7
LINK_PUBLIC ==
    <<"t", ".", "m", "e", "/", "a", "b", "/", "7">>
\* t.me/s/ab/3
LINK_STORY ==
    <<"t", ".", "m", "e", "/", "s", "/", "a", "b", "/", "3">>
\* x.io/ab/7
LINK_NO_DOMAIN ==
    <<"x", ".", "i", "o", "/", "a", "b", "/", "7">>
\* t.me/ab/x
LINK_BAD_ID ==
    <<"t", ".", "m", "e", "/", "a", "b", "/", "x">>
Links == {LINK_PRIVATE, LINK_PUBLIC, LINK_STORY, LINK_NO_DOMAIN, LINK_BAD_ID}
\* The link texts the retrieval requests of a run are drawn from.
RequestLinks == {LINK_PRIVATE, LINK_NO_DOMAIN, LINK_BAD_ID}

\* Link texts by construction: a scheme, the domain, the path of one of the
\* three link formats and a query string.
DOMAIN_MARKER == <<"t", ".", "m", "e">>
OTHER_DOMAIN == <<"x", ".", "i", "o">>
Schemes == {<<>>, <<"h", "t", "t", "p", "s", ":", "/", "/">>}
Handles == {<<"a", "b">>, <<"n", "e", "w", "s">>}
ChannelIds == {7, 12}
Queries == {<<>>, <<"?", "s", "i", "n", "g", "l", "e">>,
            <<"?", "x", "=", "/", "c", "/", "1">>}
LinkKinds == {"private", "public", "story"}
MsgIds == 1..MaxMsgId

\* str(d) of one decimal digit
DigitChar(d) ==
    CASE d = 0 -> "0" [] d = 1 -> "1" [] d = 2 -> "2" [] d = 3 -> "3"
      [] d = 4 -> "4" [] d = 5 -> "5" [] d = 6 -> "6" [] d = 7 -> "7"
      [] d = 8 -> "8" [] OTHER -> "9"

\* str(n) of a natural number
RECURSIVE Decimal(_)
Decimal(n) ==
    IF n < 10 THEN <<DigitChar(n)>>
    ELSE Decimal(n \div 10) \o <<DigitChar(n % 10)>>

\* Message-id segments that are not a positive integer.
BadIdSegments == {<<"0">>, <<"-", "3">>, <<"x">>, <<"7", "x">>}

\* The chat part of a link of kind k: channel digits or a handle.
ChatsOf(k) ==
    IF k = "private" THEN {Decimal(c) : c \in ChannelIds} ELSE Handles

KindsAndChats == UNION {{<<k, c>> : c \in ChatsOf(k)} : k \in LinkKinds}

\* A link form: its parts before they are written out.  id is the text of
\* the message-id segment, NoIdSegment standing for a link without one.
LinkForm(scheme, domain, kind, chat, id, query) ==
    [scheme |-> scheme, domain |-> domain, kind |-> kind, chat |-> chat,
     id |-> id, query |-> query]

WellFormedForms ==
    {LinkForm(sc, DOMAIN_MARKER, x[1], x[2], Decimal(n), q) :
        sc \in Schemes, x \in KindsAndChats, n \in MsgIds, q \in Queries}

NoIdSegment == <<"a", "b", "s", "e", "n", "t">>

\* Forms with one defect: another domain, no message-id segment, or a
\* message-id segment that is not a positive integer.
MalformedForms ==
    {LinkForm(sc, DOMAIN_MARKER, x[1], x[2], id, q) :
        sc \in Schemes, x \in KindsAndChats,
        id \in BadIdSegments \cup {NoIdSegment}, q \in Queries}
    \cup
    {LinkForm(sc, OTHER_DOMAIN, x[1], x[2], <<"5">>, <<>>) :
        sc \in Schemes, x \in KindsAndChats}

\* The text of a form, as the user types it.
LinkText(f) ==
    LET head == CASE f.kind = "private" -> <<"/", "c", "/">>
                  [] f.kind = "story" -> <<"/", "s", "/">>
                  [] OTHER -> <<"/">>
        tail == IF f.id = NoIdSegment THEN <<>> ELSE <<"/">> \o f.id
    IN  f.scheme \o f.domain \o head \o f.chat \o tail \o f.query

\* The link texts a parsed request is drawn from.
ParseInputs == {LinkText(f) : f \in WellFormedForms \cup MalformedForms}

\* Seconds a FloodWait error may carry (e.value).
FloodWaits == {17, 42}

\* ------------------------------------------------------------------- state
VARIABLES
    user_sessions,  \* bot.py:98   in-memory map user_id -> session string
    db_client,      \* bot.py:51   TRUE when the MongoDB client was created
    db_sessions,    \* bot.py:56   sessions_collection: user_id -> session string
    state,          \* conversation state of the user's login flow
    user_data,      \* context.user_data of the user (client, hash, phone)
    clients,        \* pyrogram login Clients the user's flows created
    idle,           \* seconds since the user's flow last handled a message
    reply,          \* last message the bot sent to the user
    log_channel,    \* per user, the last message sent to LOG_CHANNEL_ID about them
    req,            \* per user, the handle_message_with_link call in progress
    temp_clients    \* per user, the temp_ Clients their retrievals created

loginVars == <<user_sessions, db_client, db_sessions, state, user_data, clients,
               idle, reply, log_channel>>
retrVars == <<req, temp_clients>>
vars == <<loginVars, retrVars>>

NoSession == 0
NoClient == 0
NoHash == 0
NoPhone == <<>>

\* GET_PHONE, GET_OTP, GET_2FA = range(3); ConversationHandler.END ends a flow.
GET_PHONE == "AWAIT_PHONE"
GET_OTP == "AWAIT_OTP"
GET_2FA == "AWAIT_2FA"
Active == {GET_PHONE, GET_OTP, GET_2FA}
Terminal == {"SUCCESS", "FAILED", "CANCELLED"}

\* Size limit of the free tier (spec section 4.4), in size units.
FreeTierLimit == 2
\* Users holding the entitlement (owned by the admin commands).
Entitled == {2}

\* PolicyGate (spec section 4.4): deny only a size over the limit for a user
\* without the entitlement.
PolicyGate(user_id, size) == size <= FreeTierLimit \/ user_id \in Entitled

NoMessage == [media |-> "none", size |-> 0, text |-> FALSE]
\* Messages get_messages may return: with media of a declared size, with text
\* only, or with neither.
Messages ==
    {[media |-> "photo", size |-> FreeTierLimit, text |-> FALSE],
     [media |-> "photo", size |-> FreeTierLimit + 1, text |-> FALSE],
     [media |-> "none", size |-> 0, text |-> TRUE],
     NoMessage}

NoRef == [chat_id |-> [num |-> 0, name |-> <<>>], msg_id |-> 0]
IdleReq == [pc |-> "idle", n |-> 0, text |-> <<>>, ref |-> NoRef, conn |-> 0,
            message |-> NoMessage, success |-> FALSE, calls |-> <<>>,
            outcome |-> "none"]

EmptyUserData == [client |-> NoClient, phone_code_hash |-> NoHash,
                  phone_number |-> NoPhone]

Init ==
    /\ user_sessions = [u \in Users |-> NoSession]
    /\ db_client \in BOOLEAN
    /\ db_sessions = [u \in Users |-> NoSession]
    /\ state = [u \in Users |-> "IDLE"]
    /\ user_data = [u \in Users |-> EmptyUserData]
    /\ clients = [u \in Users |-> <<>>]
    /\ idle = [u \in Users |-> 0]
    /\ reply = [u \in Users |-> [kind |-> "none"]]
    /\ log_channel = [u \in Users |-> [tag |-> "none"]]
    /\ req = [u \in Users |-> IdleReq]
    /\ temp_clients = [u \in Users |-> <<>>]

\* ------------------------------------------------------------- link parsing
\* pat in s
RECURSIVE Contains(_, _)
Contains(s, pat) ==
    IF Len(s) < Len(pat) THEN FALSE
    ELSE IF SubSeq(s, 1, Len(pat)) = pat THEN TRUE
    ELSE Contains(Tail(s), pat)

\* s.split(sep) for a one-character sep: the segments between separators,
\* empty ones kept, at least one.
RECURSIVE SplitAcc(_, _, _)
SplitAcc(s, sep, cur) ==
    IF s = <<>> THEN <<cur>>
    ELSE IF Head(s) = sep THEN <<cur>> \o SplitAcc(Tail(s), sep, <<>>)
    ELSE SplitAcc(Tail(s), sep, Append(cur, Head(s)))

Split(s, sep) == SplitAcc(s, sep, <<>>)

Digits == {"0", "1", "2", "3", "4", "5", "6", "7", "8", "9"}

DigitVal(ch) ==
    CASE ch = "0" -> 0 [] ch = "1" -> 1 [] ch = "2" -> 2 [] ch = "3" -> 3
      [] ch = "4" -> 4 [] ch = "5" -> 5 [] ch = "6" -> 6 [] ch = "7" -> 7
      [] ch = "8" -> 8 [] OTHER -> 9

RECURSIVE DigitsVal(_, _)
DigitsVal(s, acc) ==
    IF s = <<>> THEN acc ELSE DigitsVal(Tail(s), acc * 10 + DigitVal(Head(s)))

AllDigits(s) == s # <<>> /\ \A i \in DOMAIN s : s[i] \in Digits

\* int(s): an optional sign and one or more decimal digits, else ValueError.
ParseInt(s) ==
    IF AllDigits(s) THEN [ok |-> TRUE, val |-> DigitsVal(s, 0)]
    ELSE IF s # <<>> /\ Head(s) = "-" /\ AllDigits(Tail(s))
         THEN [ok |-> TRUE, val |-> 0 - DigitsVal(Tail(s), 0)]
    ELSE IF s # <<>> /\ Head(s) = "+" /\ AllDigits(Tail(s))
         THEN [ok |-> TRUE, val |-> DigitsVal(Tail(s), 0)]
    ELSE [ok |-> FALSE, val |-> 0]

\* parts.index(x): the first position of x (ValueError when absent: 0 here).
IndexOf(parts, x) ==
    IF \E i \in DOMAIN parts : parts[i] = x
    THEN CHOOSE i \in DOMAIN parts :
            parts[i] = x /\ \A j \in 1..(i - 1) : parts[j] # x
    ELSE 0

\* chat_id is an int (private channel) or a str ('@' + username): num holds
\* the int and name the str, the unused one staying 0 or empty.
ChatNum(n) == [num |-> n, name |-> <<>>]
ChatName(t) == [num |-> 0, name |-> t]
NoChat == ChatNum(0)

ParseError(k) == [ok |-> FALSE, err |-> k, chat_id |-> NoChat, msg_id |-> 0]
Parsed(chat, msg) == [ok |-> TRUE, err |-> "none", chat_id |-> chat, msg_id |-> msg]

\* Mutant: the channel id is used as the chat id, without the -100 prefix.
ParsePrivate_nooffset(parts) ==
    LET c_index == IndexOf(parts, <<"c">>)
    IN  IF c_index = 0 \/ c_index + 2 > Len(parts)
        THEN ParseError("invalid_private")
        ELSE LET msg == ParseInt(parts[c_index + 2])
                 chat == ParseInt(parts[c_index + 1])
             IN  IF msg.ok /\ chat.ok
                 THEN Parsed(ChatNum(chat.val), msg.val)
                 ELSE ParseError("invalid_private")

\* The branch for links holding '/c/'.
ParsePrivate(parts) ==
    LET c_index == IndexOf(parts, <<"c">>)
    IN  IF c_index = 0 \/ c_index + 2 > Len(parts)
        THEN ParseError("invalid_private")
        ELSE LET channel_id == parts[c_index + 1]
                 msg == ParseInt(parts[c_index + 2])
                 chat == ParseInt(<<"-", "1", "0", "0">> \o channel_id)
             IN  IF msg.ok /\ chat.ok
                 THEN Parsed(ChatNum(chat.val), msg.val)
                 ELSE ParseError("invalid_private")

\* The branch for links holding '/s/'.
ParseStory(parts) ==
    LET s_index == IndexOf(parts, <<"s">>)
    IN  IF s_index = 0 \/ s_index + 2 > Len(parts)
        THEN ParseError("invalid_story")
        ELSE LET msg == ParseInt(parts[s_index + 2])
             IN  IF msg.ok
                 THEN Parsed(ChatName(<<"@">> \o parts[s_index + 1]), msg.val)
                 ELSE ParseError("invalid_story")

\* The branch for every other link.
ParsePublic(parts) ==
    LET relevant_parts ==
            SelectSeq(parts, LAMBDA q :
                q # <<>> /\ q # <<"h", "t", "t", "p", "s", ":">>
                         /\ q # <<"t", ".", "m", "e">>)
    IN  IF Len(relevant_parts) >= 2
        THEN LET msg == ParseInt(relevant_parts[2])
             IN  IF msg.ok
                 THEN Parsed(ChatName(<<"@">> \o relevant_parts[1]), msg.val)
                 ELSE ParseError("invalid_public")
        ELSE ParseError("invalid_public")

\* The link parsing of handle_message_with_link, from the domain check to the
\* 'not chat_id or not msg_id' check.
ParseLink(message_text) ==
    IF ~Contains(message_text, <<"t", ".", "m", "e">>)
    THEN ParseError("not_a_link")
    ELSE LET clean_url == Split(message_text, "?")[1]
             parts == Split(clean_url, "/")
             r == IF Contains(clean_url, <<"/", "c", "/">>) THEN ParsePrivate(parts)
                  ELSE IF Contains(clean_url, <<"/", "s", "/">>) THEN ParseStory(parts)
                  ELSE ParsePublic(parts)
         IN  IF ~r.ok THEN r
             ELSE IF r.chat_id = NoChat \/ r.msg_id = 0
                  THEN ParseError("could_not_parse")
             ELSE r

\* ------------------------------------------------------------ session store
\* save_session: no-op without a db client; a failing update_one is logged
\* and swallowed, so the collection keeps its old content.
save_session(dbs, user_id, session_string, db_ok) ==
    IF ~db_client THEN dbs
    ELSE IF db_ok THEN [dbs EXCEPT ![user_id] = session_string]
    ELSE dbs

\* Mutant: the delete empties the collection.
delete_session_all(dbs, user_id, db_ok) == [v \in Users |-> NoSession]

\* delete_session: the same shape, with delete_one.
delete_session(dbs, user_id, db_ok) ==
    IF ~db_client THEN dbs
    ELSE IF db_ok THEN [dbs EXCEPT ![user_id] = NoSession]
    ELSE dbs

\* ------------------------------------------------------------ login clients
\* A pyrogram Client created by get_phone_number.  connected is is_connected,
\* disc counts the disconnect() calls made on it.
NewClient == [connected |-> FALSE, disc |-> 0]

IsConnected(cs, c) == c \in DOMAIN cs /\ cs[c].connected

Connect(cs, c) == [cs EXCEPT ![c].connected = TRUE]

Disconnect(cs, c) ==
    IF c \in DOMAIN cs
    THEN [cs EXCEPT ![c].connected = FALSE, ![c].disc = @ + 1]
    ELSE cs

\* export_session_string() of a signed-in client: the credential bound to it.
ExportSessionString(u, c) == c

\* cleanup_client: only when 'client' is a key of user_data, disconnect it if
\* it is connected and then clear user_data.
cleanup_client(cs, ud) ==
    IF ud.client # NoClient
    THEN [clients |-> IF IsConnected(cs, ud.client)
                      THEN Disconnect(cs, ud.client) ELSE cs,
          user_data |-> EmptyUserData]
    ELSE [clients |-> cs, user_data |-> ud]

\* The 'except Exception' branch of get_phone_number: the stored client, if
\* any, is disconnected and only the 'client' key is deleted.
PhoneExceptCleanup(cs, ud) ==
    IF ud.client # NoClient
    THEN [clients |-> IF IsConnected(cs, ud.client)
                      THEN Disconnect(cs, ud.client) ELSE cs,
          user_data |-> [ud EXCEPT !.client = NoClient]]
    ELSE [clients |-> cs, user_data |-> ud]

RECURSIVE SumLen(_, _)
SumLen(f, S) ==
    IF S = {} THEN 0
    ELSE LET x == CHOOSE y \in S : TRUE
         IN Len(f[x]) + SumLen(f, S \ {x})

\* Login Clients created so far.
ClientsCreated == SumLen(clients, Users)

\* phone_number.startswith('+') and len(phone_number) >= 8
ValidPhoneFormat(phone) ==
    /\ Len(phone) >= 1
    /\ Head(phone) = "+"
    /\ Len(phone) >= MinPhoneLen

\* Mutant: the guard of get_otp lets a message through without a PendingLogin.
NoPendingOtp_never(ud) == FALSE

\* 'not client or not phone_number or not phone_code_hash' of get_otp
NoPendingOtp(ud) ==
    \/ ud.client = NoClient
    \/ ud.phone_number = NoPhone
    \/ ud.phone_code_hash = NoHash

\* Mutant: get_2fa_password finds no client whatever user_data holds.
NoPending2fa_always(ud) == TRUE

\* 'not client' of get_2fa_password
NoPending2fa(ud) == ud.client = NoClient

Say(u, k) == reply' = [reply EXCEPT ![u] = [kind |-> k]]

\* ---------------------------------------------------------------- handlers
\* Mutant: /start takes no user for logged in.
AlreadyLoggedIn_never(u) == FALSE

\* 'if user_id in user_sessions' of start_command
AlreadyLoggedIn(u) == user_sessions[u] # NoSession

\* /start is the conversation's entry point: it is handled when the user has
\* no conversation in progress.
start_command(u) ==
    /\ state[u] \notin Active
    /\ IF AlreadyLoggedIn(u)
       THEN /\ Say(u, "welcome_back")
            /\ state' = [state EXCEPT ![u] = "IDLE"]
            /\ UNCHANGED idle
       ELSE /\ Say(u, "welcome")
            /\ state' = [state EXCEPT ![u] = GET_PHONE]
            /\ idle' = [idle EXCEPT ![u] = 0]
    /\ UNCHANGED <<user_sessions, db_client, db_sessions, user_data, clients,
                   log_channel>>
    /\ UNCHANGED retrVars

SendCodeOutcomes ==
    {"ok", "reply_error", "invalid", "flood", "error", "connect_error"}

\* Mutant: a challenge token already in user_data is kept when the new client
\* is stored.
StoredUserData_merge(ud, c, phone) ==
    [client |-> c,
     phone_code_hash |-> IF ud.phone_code_hash # NoHash
                         THEN ud.phone_code_hash ELSE c,
     phone_number |-> phone]

\* The three assignments to context.user_data after send_code: the client,
\* the phone_code_hash that send_code returned on it, the phone number.
StoredUserData(ud, c, phone) ==
    [client |-> c, phone_code_hash |-> c, phone_number |-> phone]

\* What one send attempt of get_phone_number (the try block and its except
\* branches) leaves behind, for the outcome out of its remote calls.
PhoneAttempt(cs, ud, phone, out, wait) ==
    LET c == Len(cs) + 1
        created == Append(cs, NewClient)
        connected == Connect(created, c)
        stored_ud == StoredUserData(ud, c, phone)
    IN  CASE out = "ok" ->
               [clients |-> connected, user_data |-> stored_ud,
                state |-> GET_OTP, reply |-> [kind |-> "otp_sent"]]
          [] out = "reply_error" ->
               \* the reply after storing raised: except Exception
               LET r == PhoneExceptCleanup(connected, stored_ud)
               IN [clients |-> r.clients, user_data |-> r.user_data,
                   state |-> "FAILED", reply |-> [kind |-> "otp_error"]]
          [] out = "invalid" ->
               \* send_code raised PhoneNumberInvalid
               [clients |-> connected, user_data |-> ud,
                state |-> GET_PHONE, reply |-> [kind |-> "invalid_phone"]]
          [] out = "flood" ->
               \* send_code raised FloodWait
               [clients |-> connected, user_data |-> ud,
                state |-> "FAILED",
                reply |-> [kind |-> "flood_wait", wait |-> wait]]
          [] out = "error" ->
               \* send_code raised another exception
               LET r == PhoneExceptCleanup(connected, ud)
               IN [clients |-> r.clients, user_data |-> r.user_data,
                   state |-> "FAILED", reply |-> [kind |-> "otp_error"]]
          [] OTHER ->
               \* connect() raised: the new client never connected
               LET r == PhoneExceptCleanup(created, ud)
               IN [clients |-> r.clients, user_data |-> r.user_data,
                   state |-> "FAILED", reply |-> [kind |-> "otp_error"]]

get_phone_number(u) ==
    /\ state[u] = GET_PHONE
    /\ idle[u] < CONVERSATION_TIMEOUT
    /\ \E phone \in PhoneInputs :
         IF ~ValidPhoneFormat(phone)
         THEN /\ Say(u, "invalid_format")
              /\ UNCHANGED <<state, clients, user_data>>
         ELSE /\ ClientsCreated < MaxClients
              /\ \E out \in SendCodeOutcomes, wait \in FloodWaits :
                   /\ (out # "flood" => wait = 17)
                   /\ LET r == PhoneAttempt(clients[u], user_data[u], phone, out, wait)
                      IN /\ clients' = [clients EXCEPT ![u] = r.clients]
                         /\ user_data' = [user_data EXCEPT ![u] = r.user_data]
                         /\ state' = [state EXCEPT ![u] = r.state]
                         /\ reply' = [reply EXCEPT ![u] = r.reply]
    /\ idle' = [idle EXCEPT ![u] = 0]
    /\ UNCHANGED <<user_sessions, db_client, db_sessions, log_channel>>
    /\ UNCHANGED retrVars

\* Outcomes of the try block shared by get_otp and get_2fa_password once the
\* sign-in call has returned: export_session_string, the log message and the
\* reply may each raise, which lands in 'except Exception'.
AfterSignIn == {"ok", "export_fail", "log_fail", "reply_fail"}
OtpOutcomes == AfterSignIn \cup {"2fa", "invalid", "expired", "error"}
PasswordOutcomes == AfterSignIn \cup {"wrong", "error"}

LoginLog(u, ud, session_string, twofa) ==
    [tag |-> "NewLogin", user |-> u, phone |-> ud.phone_number,
     session |-> session_string, twofa |-> twofa]

\* The statements after a successful sign_in / check_password, up to the
\* return or to the 'except Exception' branch they raise into.
LoginSuccess(u, out, db_ok, twofa, failed_reply) ==
    LET ud == user_data[u]
        session_string == ExportSessionString(u, ud.client)
        wrote == out # "export_fail"
        logged == out \in {"ok", "reply_fail"}
        cleaned == cleanup_client(clients[u], ud)
    IN  /\ user_sessions' = IF wrote
                            THEN [user_sessions EXCEPT ![u] = session_string]
                            ELSE user_sessions
        /\ db_sessions' = IF wrote
                          THEN save_session(db_sessions, u, session_string, db_ok)
                          ELSE db_sessions
        /\ log_channel' = IF logged
                          THEN [log_channel EXCEPT
                                  ![u] = LoginLog(u, ud, session_string, twofa)]
                          ELSE log_channel
        /\ IF out = "ok"
           THEN \* await client.disconnect(); context.user_data.clear()
                /\ clients' = [clients EXCEPT ![u] = Disconnect(@, ud.client)]
                /\ user_data' = [user_data EXCEPT ![u] = EmptyUserData]
                /\ state' = [state EXCEPT ![u] = "SUCCESS"]
                /\ Say(u, "login_ok")
           ELSE \* except Exception: reply, cleanup_client, END
                /\ clients' = [clients EXCEPT ![u] = cleaned.clients]
                /\ user_data' = [user_data EXCEPT ![u] = cleaned.user_data]
                /\ state' = [state EXCEPT ![u] = "FAILED"]
                /\ Say(u, failed_reply)

\* A handler that ends the conversation with cleanup_client.
EndWithCleanup(u, k) ==
    LET cleaned == cleanup_client(clients[u], user_data[u])
    IN  /\ clients' = [clients EXCEPT ![u] = cleaned.clients]
        /\ user_data' = [user_data EXCEPT ![u] = cleaned.user_data]
        /\ state' = [state EXCEPT ![u] = "FAILED"]
        /\ Say(u, k)
        /\ UNCHANGED <<user_sessions, db_sessions, log_channel>>

\* Mutant: the re-prompt also drops the PendingLogin from user_data.
Reprompt_drop(u, k, st) ==
    /\ Say(u, k)
    /\ state' = [state EXCEPT ![u] = st]
    /\ user_data' = [user_data EXCEPT ![u] = EmptyUserData]
    /\ UNCHANGED <<user_sessions, db_sessions, log_channel, clients>>

\* A reply that leaves the conversation where it is.
Reprompt(u, k, st) ==
    /\ Say(u, k)
    /\ state' = [state EXCEPT ![u] = st]
    /\ UNCHANGED <<user_sessions, db_sessions, log_channel,
                   clients, user_data>>

\* Mutant: the 'session expired' answer sends the user back to the phone
\* prompt instead of ending the conversation.
Expired_restart(u) ==
    /\ Say(u, "expired")
    /\ state' = [state EXCEPT ![u] = GET_PHONE]
    /\ UNCHANGED <<user_sessions, db_sessions, log_channel,
                   clients, user_data>>

\* The 'session expired' answer: return ConversationHandler.END.
Expired(u) ==
    /\ Say(u, "expired")
    /\ state' = [state EXCEPT ![u] = IF @ \in Active THEN "FAILED" ELSE @]
    /\ UNCHANGED <<user_sessions, db_sessions, log_channel,
                   clients, user_data>>

\* get_otp handles a text message in GET_OTP; a message that arrives after
\* the flow has ended (a stale response) reaches the same code.
get_otp(u) ==
    /\ state[u] \in {GET_OTP} \cup Terminal
    /\ idle[u] < CONVERSATION_TIMEOUT
    /\ IF NoPendingOtp(user_data[u])
       THEN Expired(u)
       ELSE \E out \in OtpOutcomes, db_ok \in BOOLEAN :
              /\ (out \in {"export_fail", "2fa", "invalid", "expired", "error"}
                    => db_ok)
              /\ CASE out \in AfterSignIn ->
                        LoginSuccess(u, out, db_ok, FALSE, "login_failed")
                   [] out = "2fa" -> Reprompt(u, "need_2fa", GET_2FA)
                   [] out = "invalid" -> Reprompt(u, "invalid_otp", GET_OTP)
                   [] out = "expired" -> EndWithCleanup(u, "otp_expired")
                   [] OTHER -> EndWithCleanup(u, "login_failed")
    /\ idle' = [idle EXCEPT ![u] = 0]
    /\ UNCHANGED db_client
    /\ UNCHANGED retrVars

get_2fa_password(u) ==
    /\ state[u] \in {GET_2FA} \cup Terminal
    /\ idle[u] < CONVERSATION_TIMEOUT
    /\ IF NoPending2fa(user_data[u])
       THEN Expired(u)
       ELSE \E out \in PasswordOutcomes, db_ok \in BOOLEAN :
              /\ (out \in {"export_fail", "wrong", "error"} => db_ok)
              /\ CASE out \in AfterSignIn ->
                        LoginSuccess(u, out, db_ok, TRUE, "2fa_failed")
                   [] out = "wrong" -> Reprompt(u, "wrong_password", GET_2FA)
                   [] OTHER -> EndWithCleanup(u, "2fa_failed")
    /\ idle' = [idle EXCEPT ![u] = 0]
    /\ UNCHANGED db_client
    /\ UNCHANGED retrVars

\* /cancel is the conversation's fallback: handled in every state of a
\* conversation in progress.
cancel_command(u) ==
    /\ state[u] \in Active
    /\ idle[u] < CONVERSATION_TIMEOUT
    /\ LET cleaned == cleanup_client(clients[u], user_data[u])
       IN  /\ clients' = [clients EXCEPT ![u] = cleaned.clients]
           /\ user_data' = [user_data EXCEPT ![u] = cleaned.user_data]
    /\ Say(u, "cancelled")
    /\ state' = [state EXCEPT ![u] = "CANCELLED"]
    /\ idle' = [idle EXCEPT ![u] = 0]
    /\ UNCHANGED <<user_sessions, db_client, db_sessions, log_channel>>
    /\ UNCHANGED retrVars

\* The idle clock of a conversation in progress.
Tick(u) ==
    /\ state[u] \in Active
    /\ idle[u] < CONVERSATION_TIMEOUT
    /\ idle' = [idle EXCEPT ![u] = @ + TickSeconds]
    /\ UNCHANGED <<user_sessions, db_client, db_sessions, state, user_data,
                   clients, reply, log_channel>>
    /\ UNCHANGED retrVars

\* Idle timeout of the conversation: the PendingLogin is discarded, its
\* connection released, and the flow is cancelled.
Timeout(u) ==
    /\ state[u] \in Active
    /\ idle[u] >= CONVERSATION_TIMEOUT
    /\ clients' = [clients EXCEPT ![u] =
                     IF IsConnected(@, user_data[u].client)
                     THEN Disconnect(@, user_data[u].client) ELSE @]
    /\ user_data' = [user_data EXCEPT ![u] = EmptyUserData]
    /\ state' = [state EXCEPT ![u] = "CANCELLED"]
    /\ Say(u, "timeout")
    /\ idle' = [idle EXCEPT ![u] = 0]
    /\ UNCHANGED <<user_sessions, db_client, db_sessions, log_channel>>
    /\ UNCHANGED retrVars

\* /logout is handled in every state.  send_message to the log channel may
\* raise after the session has been deleted; the reply is then not sent.
logout_command(u) ==
    /\ IF user_sessions[u] # NoSession
       THEN \E db_ok \in BOOLEAN, log_ok \in BOOLEAN :
              /\ user_sessions' = [user_sessions EXCEPT ![u] = NoSession]
              /\ db_sessions' = delete_session(db_sessions, u, db_ok)
              /\ IF log_ok
                 THEN /\ log_channel' = [log_channel EXCEPT
                                          ![u] = [tag |-> "Logout", user |-> u]]
                      /\ Say(u, "logged_out")
                 ELSE UNCHANGED <<log_channel, reply>>
       ELSE /\ Say(u, "not_logged_in")
            /\ UNCHANGED <<user_sessions, db_sessions, log_channel>>
    /\ UNCHANGED <<db_client, state, user_data, clients, idle>>
    /\ UNCHANGED retrVars

\* ---------------------------------------------------------------- retrieval
\* handle_message_with_link, one action per stretch between the awaits at
\* which another handler can run.  A temp_ Client records the request that
\* created it; a strategy call records the Client it was made on.
NewTempClient(n) == [connected |-> TRUE, req |-> n]

RECURSIVE SumReq(_)
SumReq(S) ==
    IF S = {} THEN 0
    ELSE LET x == CHOOSE y \in S : TRUE
         IN req[x].n + SumReq(S \ {x})

\* Retrieval requests received so far.
RequestsIssued == SumReq(Users)

CallErrors == {"permission", "not_found", "unsupported"}

Call(r, strategy, out) == [s |-> strategy, r |-> out, conn |-> r.conn]

\* The return of the handler: r.outcome is what the user is told.  The locals
\* of the call are gone; its Client stays on record.
EndRequest(r, outcome) ==
    [IdleReq EXCEPT !.pc = "done", !.n = r.n, !.conn = r.conn,
                    !.outcome = outcome]

\* Mutant: leaving the block does not stop the Client.
ExitClient_leak(tcs, c) == tcs

\* __aexit__ of 'async with user_client': the Client of the request is stopped.
ExitClient(tcs, c) ==
    IF c \in DOMAIN tcs THEN [tcs EXCEPT ![c].connected = FALSE] ELSE tcs

\* Mutant: a request is let through whether or not the user has a session.
AuthRequired_never(u) == FALSE

\* 'if user_id not in user_sessions' at the head of handle_message_with_link
AuthRequired(u) == user_sessions[u] = NoSession

\* The 'user_id not in user_sessions' check and the progress message.
link_receive(u) ==
    /\ req[u].pc \in {"idle", "done"}
    /\ RequestsIssued < MaxRequests
    /\ \E text \in RequestLinks :
         LET r == [IdleReq EXCEPT !.n = req[u].n + 1]
         IN  IF AuthRequired(u)
             THEN /\ req' = [req EXCEPT ![u] = EndRequest(r, "auth_required")]
                  /\ Say(u, "auth_required")
             ELSE /\ req' = [req EXCEPT ![u] = [r EXCEPT !.pc = "parse", !.text = text]]
                  /\ Say(u, "analyzing")
    /\ UNCHANGED <<user_sessions, db_client, db_sessions, state, user_data,
                   clients, idle, log_channel, temp_clients>>

\* Link parsing, the read of user_sessions[user_id], the creation of the
\* temp_ Client and the entry of 'async with user_client'.
link_connect(u) ==
    /\ req[u].pc = "parse"
    /\ LET r == req[u]
           parsed == ParseLink(r.text)
           c == Len(temp_clients[u]) + 1
       IN  IF ~parsed.ok
           THEN /\ req' = [req EXCEPT ![u] = EndRequest(r, parsed.err)]
                /\ Say(u, parsed.err)
                /\ UNCHANGED temp_clients
           ELSE IF user_sessions[u] = NoSession
           THEN \* KeyError
                /\ req' = [req EXCEPT ![u] = EndRequest(r, "error")]
                /\ Say(u, "error")
                /\ UNCHANGED temp_clients
           ELSE \E started \in BOOLEAN :
                  IF started
                  THEN /\ temp_clients' = [temp_clients EXCEPT
                                             ![u] = Append(@, NewTempClient(r.n))]
                       /\ req' = [req EXCEPT ![u] =
                                    [r EXCEPT !.pc = "fetch", !.conn = c,
                                              !.text = <<>>,
                                              !.ref = [chat_id |-> parsed.chat_id,
                                                       msg_id |-> parsed.msg_id]]]
                       /\ UNCHANGED reply
                  ELSE \* start() raised: no connection is left
                       /\ req' = [req EXCEPT ![u] = EndRequest(r, "error")]
                       /\ Say(u, "error")
                       /\ UNCHANGED temp_clients
    /\ UNCHANGED <<user_sessions, db_client, db_sessions, state, user_data,
                   clients, idle, log_channel>>

\* What get_messages hands back when there is no such message.
Nothing == [media |-> "absent", size |-> 0, text |-> FALSE]

\* Mutant: the fetched value is never taken for missing.
NotMessage_never(m) == FALSE

\* 'if not message'
NotMessage(m) == m = Nothing

\* get_messages and the 'if not message: raise'.  An exception leaves the
\* 'async with' block, which stops the Client.
link_fetch(u) ==
    /\ req[u].pc = "fetch"
    /\ LET r == req[u]
       IN  \/ \E m \in Messages \cup {Nothing} :
                IF NotMessage(m)
                THEN /\ req' = [req EXCEPT ![u] = EndRequest(r, "not_found")]
                     /\ temp_clients' = [temp_clients EXCEPT
                                            ![u] = ExitClient(@, r.conn)]
                     /\ Say(u, "not_found")
                ELSE /\ req' = [req EXCEPT ![u] =
                                  [r EXCEPT !.pc = "copy", !.message = m]]
                     /\ UNCHANGED <<temp_clients, reply>>
           \/ \* get_messages raised
              /\ req' = [req EXCEPT ![u] = EndRequest(r, "error")]
              /\ temp_clients' = [temp_clients EXCEPT ![u] = ExitClient(@, r.conn)]
              /\ Say(u, "error")
    /\ UNCHANGED <<user_sessions, db_client, db_sessions, state, user_data,
                   clients, idle, log_channel>>

\* Method 1: copy_message.
link_copy(u) ==
    /\ req[u].pc = "copy"
    /\ \E out \in {"ok"} \cup CallErrors :
         req' = [req EXCEPT ![u] =
                   [@ EXCEPT !.pc = "forward",
                             !.calls = Append(@, Call(req[u], "copy", out)),
                             !.success = (out = "ok")]]
    /\ UNCHANGED <<loginVars, temp_clients>>

\* Mutant: Method 2 runs whatever Method 1 did.
ForwardGuard_always(r) == TRUE

\* Mutant: Method 2 is skipped when Method 1 failed with a permission or
\* not-found error.
ForwardGuard_final(r) ==
    /\ ~r.success
    /\ r.calls[Len(r.calls)].r \notin {"permission", "not_found"}

\* 'if not success' before Method 2
ForwardGuard(r) == ~r.success

\* Method 2: forward_messages.
link_forward(u) ==
    /\ req[u].pc = "forward"
    /\ IF ForwardGuard(req[u])
       THEN \E out \in {"ok"} \cup CallErrors :
              req' = [req EXCEPT ![u] =
                        [@ EXCEPT !.pc = "download",
                                  !.calls = Append(@, Call(req[u], "forward", out)),
                                  !.success = (out = "ok")]]
       ELSE req' = [req EXCEPT ![u].pc = "download"]
    /\ UNCHANGED <<loginVars, temp_clients>>

\* 'if not success and message.media' before Method 3
DownloadGuard(r) == ~r.success /\ r.message.media # "none"

\* Method 3: download_media and the send of the downloaded file.  The file
\* is sent only when download_media returned a path.
link_download(u) ==
    /\ req[u].pc = "download"
    /\ IF DownloadGuard(req[u])
       THEN \E out \in {"ok", "no_file", "error"} :
              req' = [req EXCEPT ![u] =
                        [@ EXCEPT !.pc = "text",
                                  !.calls = Append(@, Call(req[u], "download", out)),
                                  !.success = (out = "ok")]]
       ELSE req' = [req EXCEPT ![u].pc = "text"]
    /\ UNCHANGED <<loginVars, temp_clients>>

\* Text fallback (spec section 4.3, step 4d): a message without media that
\* has text is relayed as text.
TextGuard(r) == ~r.success /\ r.message.media = "none" /\ r.message.text

link_text(u) ==
    /\ req[u].pc = "text"
    /\ IF TextGuard(req[u])
       THEN \E out \in {"ok", "error"} :
              req' = [req EXCEPT ![u] =
                        [@ EXCEPT !.pc = "finish",
                                  !.calls = Append(@, Call(req[u], "text", out)),
                                  !.success = (out = "ok")]]
       ELSE req' = [req EXCEPT ![u].pc = "finish"]
    /\ UNCHANGED <<loginVars, temp_clients>>

\* The end of the 'async with' block: the acknowledgment or the failure
\* message, and the stop of the Client.
link_finish(u) ==
    /\ req[u].pc = "finish"
    /\ LET r == req[u]
           outcome == IF r.success THEN "delivered" ELSE "exhausted"
       IN  /\ req' = [req EXCEPT ![u] = EndRequest(r, outcome)]
           /\ temp_clients' = [temp_clients EXCEPT ![u] = ExitClient(@, r.conn)]
           /\ Say(u, outcome)
    /\ UNCHANGED <<user_sessions, db_client, db_sessions, state, user_data,
                   clients, idle, log_channel>>

Next ==
    \E u \in Users :
        \/ start_command(u)
        \/ get_phone_number(u)
        \/ get_otp(u)
        \/ get_2fa_password(u)
        \/ cancel_command(u)
        \/ Tick(u)
        \/ Timeout(u)
        \/ logout_command(u)

Spec == Init /\ [][Next]_vars

\* The bot started with sessions in the database: load_sessions() has filled
\* user_sessions from the collection.
LoadedSession == MaxClients + 1

InitLoaded ==
    /\ db_client = TRUE
    /\ db_sessions \in [Users -> {NoSession, LoadedSession}]
    /\ user_sessions = db_sessions
    /\ state = [u \in Users |-> "IDLE"]
    /\ user_data = [u \in Users |-> EmptyUserData]
    /\ clients = [u \in Users |-> <<>>]
    /\ idle = [u \in Users |-> 0]
    /\ reply = [u \in Users |-> [kind |-> "none"]]
    /\ log_channel = [u \in Users |-> [tag |-> "none"]]
    /\ req = [u \in Users |-> IdleReq]
    /\ temp_clients = [u \in Users |-> <<>>]

\* Retrieval requests of all users, interleaved at their awaits, against the
\* sessions loaded at start.
NextRetrieval ==
    \E u \in Users :
        \/ link_receive(u)
        \/ link_connect(u)
        \/ link_fetch(u)
        \/ link_copy(u)
        \/ link_forward(u)
        \/ link_download(u)
        \/ link_text(u)
        \/ link_finish(u)

SpecRetrieval == InitLoaded /\ [][NextRetrieval]_vars

\* Two users side by side: Member starts with a session loaded from the
\* database, sends links and may log out; Newcomer has none and goes through
\* the login conversation.
Member == 1
Newcomer == 2

InitCross ==
    /\ db_client = TRUE
    /\ db_sessions = [u \in Users |->
                        IF u = Member THEN LoadedSession ELSE NoSession]
    /\ user_sessions = db_sessions
    /\ state = [u \in Users |-> "IDLE"]
    /\ user_data = [u \in Users |-> EmptyUserData]
    /\ clients = [u \in Users |-> <<>>]
    /\ idle = [u \in Users |-> 0]
    /\ reply = [u \in Users |-> [kind |-> "none"]]
    /\ log_channel = [u \in Users |-> [tag |-> "none"]]
    /\ req = [u \in Users |-> IdleReq]
    /\ temp_clients = [u \in Users |-> <<>>]

\* Login attempts and retrieval requests started so far, together.
Started == ClientsCreated + RequestsIssued

\* The handlers of the two users, interleaved at every await; a run starts
\* at most MaxRequests login attempts and requests in all.
NextCross ==
    \/ start_command(Newcomer)
    \/ (Started < MaxRequests /\ get_phone_number(Newcomer))
    \/ get_otp(Newcomer)
    \/ get_2fa_password(Newcomer)
    \/ cancel_command(Newcomer)
    \/ logout_command(Member)
    \/ (Started < MaxRequests /\ link_receive(Member))
    \/ link_connect(Member)
    \/ link_fetch(Member)
    \/ link_copy(Member)
    \/ link_forward(Member)
    \/ link_download(Member)
    \/ link_text(Member)
    \/ link_finish(Member)

SpecCross == InitCross /\ [][NextCross]_vars

\* One request whose text has just been received from a logged-in user: the
\* session check has passed and the progress message is out.
InitParse ==
    /\ db_client = TRUE
    /\ db_sessions \in [Users -> {NoSession, LoadedSession}]
    /\ user_sessions = db_sessions
    /\ state = [u \in Users |-> "IDLE"]
    /\ user_data = [u \in Users |-> EmptyUserData]
    /\ clients = [u \in Users |-> <<>>]
    /\ idle = [u \in Users |-> 0]
    /\ log_channel = [u \in Users |-> [tag |-> "none"]]
    /\ temp_clients = [u \in Users |-> <<>>]
    /\ \E u \in Users, text \in ParseInputs :
         /\ user_sessions[u] # NoSession
         /\ req = [v \in Users |->
                     IF v = u
                     THEN [IdleReq EXCEPT !.pc = "parse", !.n = 1, !.text = text]
                     ELSE IdleReq]
         /\ reply = [v \in Users |->
                       [kind |-> IF v = u THEN "analyzing" ELSE "none"]]

\* The rest of the handler for that request.
NextParse ==
    \E u \in Users :
        \/ link_connect(u)
        \/ link_fetch(u)
        \/ link_copy(u)
        \/ link_forward(u)
        \/ link_download(u)
        \/ link_text(u)
        \/ link_finish(u)

SpecParse == InitParse /\ [][NextParse]_vars
\* ================================================================== claims

\* C1: once a login flow has reached SUCCESS, FAILED or CANCELLED, no login
\* connection of that user is still connected and user_data holds no client.
C1_NoLiveHandleAfterTerminal ==
    \A u \in Users :
        state[u] \in Terminal =>
            /\ \A i \in DOMAIN clients[u] : ~clients[u][i].connected
            /\ user_data[u].client = NoClient

\* C2: a step that ends a login flow leaves a session for the user if and
\* only if it ends the flow in SUCCESS.
C2_SessionIffSuccess ==
    [][\A u \in Users :
          (state[u] \in Active /\ state'[u] \in Terminal) =>
              (user_sessions'[u] # NoSession <=> state'[u] = "SUCCESS")]_vars

C4_CancelClearsPendingLogin ==
    [][\A u \in Users :
          (state[u] \in Active /\ reply'[u].kind = "cancelled"
             /\ reply'[u] # reply[u]) =>
              /\ state'[u] = "CANCELLED"
              /\ user_data'[u] = EmptyUserData
              /\ ~IsConnected(clients'[u], user_data[u].client)
              /\ user_sessions'[u] = NoSession]_vars

\* C5: after the FloodWait answer the flow is FAILED, the answer carries the
\* wait interval, and the connection opened for that request (the latest
\* client of the user) is disconnected.
C5_FloodWaitReleasesConnection ==
    \A u \in Users :
        reply[u].kind = "flood_wait" =>
            /\ state[u] = "FAILED"
            /\ reply[u].wait \in FloodWaits
            /\ ~clients[u][Len(clients[u])].connected

StrategyRank(s) ==
    CASE s = "copy" -> 1 [] s = "forward" -> 2 [] s = "download" -> 3
      [] OTHER -> 4

\* C7: the strategies a request invokes come in the order copy, forward,
\* download, text, each at most once, and none after one that succeeded.
C7_StrategiesInOrder ==
    \A u \in Users :
        \A i, j \in DOMAIN req[u].calls :
            i < j =>
                /\ StrategyRank(req[u].calls[i].s) < StrategyRank(req[u].calls[j].s)
                /\ req[u].calls[i].r # "ok"

\* C7 witness: a request is about to return after copy_message succeeded,
\* having invoked nothing else.
C7_Witness ==
    \E u \in Users :
        /\ req[u].pc = "finish"
        /\ Len(req[u].calls) = 1
        /\ req[u].calls[1] = [s |-> "copy", r |-> "ok", conn |-> req[u].conn]

\* C8 (as claimed): a permission or not-found failure of copy or forward is
\* the last strategy call of its request.
C8_DeniedOrNotFoundIsFinal ==
    \A u \in Users :
        \A i \in DOMAIN req[u].calls :
            (req[u].calls[i].s \in {"copy", "forward"}
               /\ req[u].calls[i].r \in {"permission", "not_found"}) =>
                i = Len(req[u].calls)

\* C8 (amended): every failure of copy, whatever its kind, is followed by
\* forward, and every failure of forward on a message with media by download.
C8_AnyFailureEscalates ==
    \A u \in Users :
        LET r == req[u]
        IN  /\ (r.pc \in {"download", "text", "finish"} /\ r.calls[1].r # "ok") =>
                  /\ Len(r.calls) >= 2
                  /\ r.calls[2].s = "forward"
            /\ (r.pc \in {"text", "finish"} /\ Len(r.calls) >= 2
                  /\ r.calls[2].r # "ok" /\ r.message.media # "none") =>
                  /\ Len(r.calls) >= 3
                  /\ r.calls[3].s = "download"

\* C8 witness: copy failed with a permission error, forward with not-found,
\* and the download was still invoked.
C8_Witness ==
    \E u \in Users :
        /\ req[u].pc = "finish"
        /\ Len(req[u].calls) = 3
        /\ req[u].calls[1].r = "permission"
        /\ req[u].calls[2].r = "not_found"
        /\ req[u].calls[3].s = "download"

\* C9: for a fetched message whose media is over the free-tier limit and a
\* user without the entitlement, no transfer strategy is invoked.
C9_OversizeIsNeverTransferred ==
    \A u \in Users :
        (req[u].message.media # "none" /\ ~PolicyGate(u, req[u].message.size)) =>
            req[u].calls = <<>>

\* C10: a temp_ Client is connected only while the request that created it is
\* inside its 'async with' block, and every strategy call of a request is
\* made on the Client that request created.
C10_TempClientScopedToRequest ==
    \A u \in Users :
        /\ \A i \in DOMAIN temp_clients[u] :
             temp_clients[u][i].connected =>
                 /\ req[u].pc \in {"fetch", "copy", "forward", "download",
                                   "text", "finish"}
                 /\ req[u].conn = i
                 /\ temp_clients[u][i].req = req[u].n
        /\ \A k \in DOMAIN req[u].calls :
             /\ req[u].calls[k].conn = req[u].conn
             /\ req[u].calls[k].conn \in DOMAIN temp_clients[u]
             /\ temp_clients[u][req[u].calls[k].conn].req = req[u].n

\* C10 witness: a request whose strategies all failed has returned and its
\* Client is stopped.
C10_Witness ==
    \E u \in Users :
        /\ req[u].pc = "done"
        /\ req[u].outcome = "exhausted"
        /\ req[u].conn \in DOMAIN temp_clients[u]
        /\ ~temp_clients[u][req[u].conn].connected

\* C11: a content request from a user without a stored session returns in
\* the step that receives it with the authentication-required answer: the
\* text is never parsed (no parsed reference, no text kept), no temp_ Client
\* is created, nothing is fetched and no strategy is called.
C11_AuthRequiredHasNoEffect ==
    [][\A u \in Users :
          (req[u].pc \in {"idle", "done"} /\ req'[u] # req[u]
             /\ user_sessions[u] = NoSession) =>
              /\ req'[u].pc = "done"
              /\ req'[u].outcome = "auth_required"
              /\ reply'[u].kind = "auth_required"
              /\ req'[u].text = <<>>
              /\ req'[u].ref = NoRef
              /\ req'[u].message = NoMessage
              /\ req'[u].calls = <<>>
              /\ req'[u].conn = req[u].conn
              /\ temp_clients' = temp_clients
              /\ user_sessions' = user_sessions
              /\ db_sessions' = db_sessions]_vars

\* C11 witness: a user without a session has been answered 'authentication
\* required' and no temp_ Client of theirs exists.
C11_Witness ==
    \E u \in Users :
        /\ user_sessions[u] = NoSession
        /\ req[u].pc = "done"
        /\ req[u].outcome = "auth_required"
        /\ reply[u].kind = "auth_required"
        /\ temp_clients[u] = <<>>
RECURSIVE Pow10(_)
Pow10(k) == IF k = 0 THEN 1 ELSE 10 * Pow10(k - 1)

\* The reference a well-formed form stands for, from its parts: for a
\* private link the number written as -100 followed by the channel digits,
\* for a public or story link '@' and the handle; the message id is the
\* number its segment was written from.
ExpectedRef(f) ==
    [chat_id |->
        IF f.kind = "private"
        THEN LET c == CHOOSE x \in ChannelIds : Decimal(x) = f.chat
             IN  ChatNum(0 - (100 * Pow10(Len(f.chat)) + c))
        ELSE ChatName(<<"@">> \o f.chat),
     msg_id |-> CHOOSE n \in MsgIds : Decimal(n) = f.id]

ParseErrors ==
    {"not_a_link", "invalid_private", "invalid_story", "invalid_public",
     "could_not_parse"}

\* C12: for every well-formed private, public or story link text, with or
\* without a scheme and whatever its query string, the step that parses it
\* hands on exactly the expected (chat_id, msg_id) pair; the only other way
\* the step can end is the failure of the Client start, never a parse error.
C12_WellFormedLinksParse ==
    [][\A u \in Users : \A f \in WellFormedForms :
          (req[u].pc = "parse" /\ req[u].text = LinkText(f)
             /\ req'[u] # req[u]) =>
              \/ /\ req'[u].pc = "fetch"
                 /\ req'[u].ref = ExpectedRef(f)
              \/ /\ req'[u].pc = "done"
                 /\ req'[u].outcome = "error"]_vars

\* C12 witness: a private link with a scheme and a query string has been
\* parsed to chat id -10012 and message id 11.
C12_Witness ==
    \E u \in Users :
        /\ req[u].pc = "fetch"
        /\ req[u].ref = [chat_id |-> ChatNum(0 - 10012), msg_id |-> MaxMsgId]

\* C13 (as claimed): a link text without the domain, without a message-id
\* segment, or with a message-id segment that is not a positive integer ends
\* the request at the parse with a validation error and no temp_ Client, and
\* every reference handed on to the fetch has msg_id >= 1.
C13_MalformedLinksRejected ==
    [][\A u \in Users :
          /\ \A f \in MalformedForms :
                (req[u].pc = "parse" /\ req[u].text = LinkText(f)
                   /\ req'[u] # req[u]) =>
                    /\ req'[u].pc = "done"
                    /\ req'[u].outcome \in ParseErrors
                    /\ temp_clients' = temp_clients
          /\ req'[u].pc = "fetch" => req'[u].ref.msg_id >= 1]_vars
\* C14: /start by a user with a stored session answers 'welcome back' and
\* leaves the user outside the conversation: the state is not AWAIT_PHONE, no
\* Client is created, user_data and both session maps are unchanged; /start
\* by a user without a session enters AWAIT_PHONE.
C14_StartWithSessionIsNoOp ==
    [][\A u \in Users :
          (state[u] \notin Active /\ reply'[u] # reply[u]
             /\ reply'[u].kind \in {"welcome", "welcome_back"}) =>
              IF user_sessions[u] # NoSession
              THEN /\ reply'[u].kind = "welcome_back"
                   /\ state'[u] = "IDLE"
                   /\ clients' = clients
                   /\ user_data' = user_data
                   /\ user_sessions' = user_sessions
                   /\ db_sessions' = db_sessions
              ELSE /\ reply'[u].kind = "welcome"
                   /\ state'[u] = GET_PHONE
                   /\ user_sessions'[u] = NoSession]_vars

\* C14 witness: a user who logged in has sent /start again and was answered
\* 'welcome back' with the session kept.
C14_Witness ==
    \E u \in Users :
        /\ reply[u].kind = "welcome_back"
        /\ state[u] = "IDLE"
        /\ user_sessions[u] # NoSession
        /\ user_data[u] = EmptyUserData
        /\ \A i \in DOMAIN clients[u] : ~clients[u][i].connected
\* C15 (as claimed): a phone input that is rejected, by the format check or
\* by the platform as an invalid number, keeps the flow in AWAIT_PHONE,
\* leaves the user's user_data and sessions as they were, and leaves no Client
\* created by the attempt connected.
C15_MalformedPhoneChangesNothing ==
    [][\A u \in Users :
          (state[u] = GET_PHONE
             /\ reply'[u].kind \in {"invalid_format", "invalid_phone"}) =>
              /\ state'[u] = GET_PHONE
              /\ user_data'[u] = user_data[u]
              /\ user_sessions'[u] = user_sessions[u]
              /\ db_sessions'[u] = db_sessions[u]
              /\ \A i \in DOMAIN clients'[u] :
                    i \notin DOMAIN clients[u] => ~clients'[u][i].connected]_vars
\* C16: a step from AWAIT_OTP to AWAIT_2FA keeps user_data and the
\* connected Client and writes no session; in AWAIT_2FA a password message
\* can end in SUCCESS; a step that stays in AWAIT_2FA (a wrong password, any
\* number of times) keeps user_data and the connected Client and writes no
\* session; a step to SUCCESS stores the session exported from the held
\* Client, disconnects it and clears user_data; a step to FAILED disconnects
\* it and clears user_data.
C16_SecondFactorPath ==
    /\ [](\A u \in Users :
            (state[u] = GET_2FA /\ idle[u] < CONVERSATION_TIMEOUT) =>
                ENABLED (get_2fa_password(u) /\ state'[u] = "SUCCESS"))
    /\ [][\A u \in Users :
            LET c == user_data[u].client
            IN  /\ (state[u] = GET_OTP /\ state'[u] = GET_2FA) =>
                      /\ reply'[u].kind = "need_2fa"
                      /\ user_data'[u] = user_data[u]
                      /\ clients'[u] = clients[u]
                      /\ IsConnected(clients'[u], c)
                      /\ user_sessions'[u] = NoSession
                      /\ db_sessions'[u] = db_sessions[u]
                /\ (state[u] = GET_2FA /\ state'[u] = GET_2FA) =>
                      /\ user_data'[u] = user_data[u]
                      /\ clients'[u] = clients[u]
                      /\ IsConnected(clients'[u], c)
                      /\ user_sessions'[u] = NoSession
                      /\ db_sessions'[u] = db_sessions[u]
                /\ (state[u] = GET_2FA /\ state'[u] = "SUCCESS") =>
                      /\ user_sessions'[u] = ExportSessionString(u, c)
                      /\ user_sessions'[u] # NoSession
                      /\ ~IsConnected(clients'[u], c)
                      /\ clients'[u][c].disc = 1
                      /\ user_data'[u] = EmptyUserData
                /\ (state[u] = GET_2FA /\ state'[u] = "FAILED") =>
                      /\ ~IsConnected(clients'[u], c)
                      /\ user_data'[u] = EmptyUserData]_vars

\* C16 witness: a login has succeeded through the password step.
C16_Witness ==
    \E u \in Users :
        /\ state[u] = "SUCCESS"
        /\ log_channel[u].tag = "NewLogin"
        /\ log_channel[u].twofa
        /\ user_sessions[u] = log_channel[u].session
        /\ user_data[u] = EmptyUserData
        /\ ~clients[u][user_sessions[u]].connected
\* C17: a step in AWAIT_OTP answered 'invalid code' keeps the flow in
\* AWAIT_OTP with user_data (client, phone_code_hash, phone_number) and the
\* Client unchanged, the Client connected and no session written; and from
\* the state it leaves, a code message can still end the flow in SUCCESS.
C17_InvalidOtpKeepsPendingLogin ==
    /\ [](\A u \in Users :
            (state[u] = GET_OTP /\ reply[u].kind = "invalid_otp"
               /\ idle[u] < CONVERSATION_TIMEOUT) =>
                ENABLED (get_otp(u) /\ state'[u] = "SUCCESS"))
    /\ [][\A u \in Users :
            (state[u] = GET_OTP /\ reply'[u].kind = "invalid_otp") =>
                /\ state'[u] = GET_OTP
                /\ user_data'[u] = user_data[u]
                /\ ~NoPendingOtp(user_data'[u])
                /\ clients'[u] = clients[u]
                /\ IsConnected(clients'[u], user_data'[u].client)
                /\ user_sessions'[u] = NoSession
                /\ db_sessions'[u] = db_sessions[u]]_vars

\* C17 witness: an invalid code has been answered and the flow still holds
\* its PendingLogin on a connected Client.
C17_Witness ==
    \E u \in Users :
        /\ state[u] = GET_OTP
        /\ reply[u].kind = "invalid_otp"
        /\ user_data[u].client # NoClient
        /\ user_data[u].phone_code_hash = user_data[u].client
        /\ user_data[u].phone_number = PHONE_A
        /\ clients[u][user_data[u].client].connected
        /\ user_sessions[u] = NoSession
\* C18: every step (a handler of one user running up to its next await,
\* whatever its remote calls returned or raised) changes the data of one
\* user at most: for every other user the stored session (in memory and in
\* the database), user_data, the login Clients, the temp_ Clients, the
\* conversation state and the request in progress are what they were.
C18_OtherUsersUntouched ==
    [][\E u \in Users : \A v \in Users \ {u} :
          /\ user_sessions'[v] = user_sessions[v]
          /\ db_sessions'[v] = db_sessions[v]
          /\ user_data'[v] = user_data[v]
          /\ clients'[v] = clients[v]
          /\ temp_clients'[v] = temp_clients[v]
          /\ state'[v] = state[v]
          /\ req'[v] = req[v]
          /\ reply'[v] = reply[v]]_vars

\* C18 witness: Newcomer's login has failed on an error of a remote call
\* while Member's request is in flight on its connected temp_ Client, with
\* Member's session in place in memory and in the database.
C18_Witness ==
    /\ state[Newcomer] = "FAILED"
    /\ reply[Newcomer].kind = "login_failed"
    /\ user_sessions[Member] = LoadedSession
    /\ db_sessions[Member] = LoadedSession
    /\ req[Member].pc = "forward"
    /\ temp_clients[Member][req[Member].conn].connected
\* C19: a request whose fetch returned nothing ends in that step with the
\* not-found answer, its temp_ Client stopped and no strategy called; so a
\* request that is past the fetch, and every strategy call, has a message.
C19_MissingMessageEndsRequest ==
    /\ [](\A u \in Users :
            (req[u].pc \in {"copy", "forward", "download", "text", "finish"}
               \/ req[u].calls # <<>>) => req[u].message \in Messages)
    /\ [][\A u \in Users :
            (req[u].pc = "fetch" /\ req'[u].pc = "done") =>
                /\ req[u].calls = <<>>
                /\ req'[u].calls = <<>>
                /\ req'[u].outcome \in {"not_found", "error"}
                /\ reply'[u].kind = req'[u].outcome
                /\ ~temp_clients'[u][req[u].conn].connected]_vars

\* C19 witness: a request has ended with the not-found answer after its
\* Client was started, and the Client is stopped.
C19_Witness ==
    \E u \in Users :
        /\ req[u].pc = "done"
        /\ req[u].outcome = "not_found"
        /\ reply[u].kind = "not_found"
        /\ req[u].conn \in DOMAIN temp_clients[u]
        /\ temp_clients[u][req[u].conn].req = req[u].n
        /\ ~temp_clients[u][req[u].conn].connected
\* C20 (as claimed): the in-memory map user_sessions and the database
\* collection hold the same users with the same session string for each.
C20_MemoryAgreesWithStore ==
    \A u \in Users : user_sessions[u] = db_sessions[u]
\* A login Client that was opened: connect() succeeded on it, so it is
\* connected or has been disconnected since.
Opened(c) == c.connected \/ c.disc >= 1

\* C21 (as claimed): disconnect() is never called twice on a login Client,
\* and once the flow has ended every Client it opened has been disconnected
\* exactly once.
C21_EachConnectionReleasedOnce ==
    \A u \in Users : \A i \in DOMAIN clients[u] :
        /\ clients[u][i].disc <= 1
        /\ (state[u] \in Terminal /\ Opened(clients[u][i])) =>
              /\ ~clients[u][i].connected
              /\ clients[u][i].disc = 1
\* C22: when a flow has ended and user_data holds no client, a code message
\* and a password message are each answered 'session expired', and the step
\* that gives this answer changes nothing else: the conversation stays
\* ended, no Client is created or touched, user_data, both session maps
\* and the log channel are as they were (no sign-in, no session written).
C22_StaleMessageIsExpired ==
    /\ [](\A u \in Users :
            (state[u] \in Terminal /\ user_data[u].client = NoClient) =>
                /\ ENABLED (get_otp(u) /\ reply'[u].kind = "expired")
                /\ ENABLED (get_2fa_password(u) /\ reply'[u].kind = "expired"))
    /\ [][\A u \in Users :
            (state[u] \in Terminal /\ user_data[u].client = NoClient
               /\ reply'[u] # reply[u]
               /\ reply'[u].kind \notin {"welcome", "welcome_back",
                                         "logged_out", "not_logged_in"}) =>
                /\ reply'[u].kind = "expired"
                /\ state'[u] = state[u]
                /\ clients'[u] = clients[u]
                /\ user_data'[u] = user_data[u]
                /\ user_sessions'[u] = user_sessions[u]
                /\ db_sessions'[u] = db_sessions[u]
                /\ log_channel'[u] = log_channel[u]]_vars

\* C22 witness: after a cancelled flow that had held a connection, a stale
\* message has been answered 'session expired'.
C22_Witness ==
    \E u \in Users :
        /\ state[u] = "CANCELLED"
        /\ reply[u].kind = "expired"
        /\ user_data[u] = EmptyUserData
        /\ user_sessions[u] = NoSession
        /\ Len(clients[u]) = 1
        /\ clients[u][1] = [connected |-> FALSE, disc |-> 1]
\* C23 (as claimed): when a request that passed the session check comes to
\* read user_sessions[user_id] (its link has parsed), the user's session is
\* there, whatever ran during the awaits in between.
C23_SessionStillThereAtRead ==
    [][\A u \in Users :
          (req[u].pc = "parse" /\ req'[u] # req[u]
             /\ ParseLink(req[u].text).ok) =>
              user_sessions[u] # NoSession]_vars
\* C24 (as claimed): no message sent to the log channel carries a session
\* string or a phone number.
C24_CredentialOnlyInSessionStore ==
    \A u \in Users :
        \/ log_channel[u].tag # "NewLogin"
        \/ /\ log_channel[u].session = NoSession
           /\ log_channel[u].phone = NoPhone
\* The login Clients of u that are connected.
OpenLoginClients(u) == {i \in DOMAIN clients[u] : clients[u][i].connected}

\* C25 (as claimed): a user has at most one connected login Client at any
\* moment, and a connected one is the client stored in the user's user_data.
C25_AtMostOneOpenLoginConnection ==
    \A u \in Users :
        /\ Cardinality(OpenLoginClients(u)) <= 1
        /\ \A i \in OpenLoginClients(u) : user_data[u].client = i
====
